---- MODULE Spec2Model ----
(***************************************************************************)
(* Vesta Mk 2 rate-of-spread engine of pyropy2/spread_model_vesta2.py.     *)
(*                                                                         *)
(* Numbers.  The engine works on floating-point values.  Here a real x is  *)
(* the integer floor(x * SC) with SC = 10^4 (four decimals).  Products and *)
(* quotients are exact integer operations followed by one floor; exp, log  *)
(* and power are evaluated by range reduction and a truncated series.      *)
(* The moisture polynomial is evaluated exactly on multi-limb integers.    *)
(* Branch tests (<=, <, >, ==) are exact; values that pass through exp or  *)
(* power agree with the floating-point results to about 1 per cent.        *)
(***************************************************************************)
EXTENDS Integers, Sequences, FiniteSets, TLC

VARIABLES pc, inp, col

vars == <<pc, inp, col>>

(***************************************************************************)
(* Fixed-point arithmetic                                                  *)
(***************************************************************************)
SC == 10^4

Fx(n) == n * SC

\* floor(a * b / SC), exact, without leaving 32 bits in between
MulFx(a, b) ==
    LET aq == a \div SC
        ar == a % SC
        bq == b \div SC
        br == b % SC
    IN  aq * b + ar * bq + ((ar * br) \div SC)

\* x * c for a literal c with five decimals, c5 = c * 10^5
MulK5(x, c5) == MulFx(x, c5) \div 10

RECURSIVE DivDigits(_, _, _)
DivDigits(r, b, n) ==
    IF n = 0 THEN 0
    ELSE ((r * 10) \div b) * 10^(n - 1) + DivDigits((r * 10) % b, b, n - 1)

\* floor(a * SC / b) for b > 0, by long division
DivFx(a, b) == (a \div b) * SC + DivDigits(a % b, b, 4)

LN2 == 6931

ExpSatShift == 14

\* e^r for 0 <= r < ln 2: 1 + r + r^2/2! + ... + r^7/7!
ExpSeries(r) ==
    LET t1 == r
        t2 == MulFx(t1, r) \div 2
        t3 == MulFx(t2, r) \div 3
        t4 == MulFx(t3, r) \div 4
        t5 == MulFx(t4, r) \div 5
        t6 == MulFx(t5, r) \div 6
        t7 == MulFx(t6, r) \div 7
    IN  SC + t1 + t2 + t3 + t4 + t5 + t6 + t7

\* np.exp: e^x = 2^k * e^r with x = k ln 2 + r.  Above 2^ExpSatShift the
\* result saturates (its reciprocal is below the last decimal kept).
ExpFx(x) ==
    LET k == x \div LN2
        r == x % LN2
    IN  IF k >= ExpSatShift THEN SC * 2^ExpSatShift
        ELSE IF k >= 0 THEN ExpSeries(r) * 2^k
        ELSE IF k < -30 THEN 0
        ELSE ExpSeries(r) \div 2^(-k)

\* the k with x / 2^k in [1, 2), and that quotient
RECURSIVE LnReduce(_, _)
LnReduce(x, k) ==
    IF x >= 2 * SC THEN LnReduce(x \div 2, k + 1)
    ELSE IF x < SC THEN LnReduce(x * 2, k - 1)
    ELSE <<x, k>>

\* ln x for x > 0: k ln 2 + 2 atanh((y - 1) / (y + 1))
LnFx(x) ==
    LET yk == LnReduce(x, 0)
        y  == yk[1]
        z  == DivFx(y - SC, y + SC)
        z2 == MulFx(z, z)
        z3 == MulFx(z, z2)
        z5 == MulFx(z3, z2)
        z7 == MulFx(z5, z2)
        z9 == MulFx(z7, z2)
    IN  yk[2] * LN2 + 2 * (z + z3 \div 3 + z5 \div 5 + z7 \div 7 + z9 \div 9)

\* np.power(b, e) for b >= 0 and a real exponent e given as e5 = e * 10^5
PowK5(b, e5) == IF b = 0 THEN 0 ELSE ExpFx(MulK5(LnFx(b), e5))

\* np.power(b, e) for b > 0 and a fixed-point exponent e
PowFx(b, e) == ExpFx(MulFx(LnFx(b), e))

(***************************************************************************)
(* Exact integers of several limbs (base SC, least significant first; the  *)
(* last limb carries the sign)                                             *)
(***************************************************************************)
BigWidth == 8

RECURSIVE BigCarry(_, _, _)
BigCarry(x, i, c) ==
    IF i = Len(x) THEN <<x[i] + c>>
    ELSE <<(x[i] + c) % SC>> \o BigCarry(x, i + 1, (x[i] + c) \div SC)

BigFromInt(n) == BigCarry([i \in 1..BigWidth |-> IF i = 1 THEN n ELSE 0], 1, 0)

BigAdd(x, y) == BigCarry([i \in 1..BigWidth |-> x[i] + y[i]], 1, 0)

\* x * k for |k| < SC
BigScale(x, k) == BigCarry([i \in 1..BigWidth |-> x[i] * k], 1, 0)

\* x * SC
BigShift(x) ==
    [i \in 1..BigWidth |->
        IF i = 1 THEN 0
        ELSE IF i = BigWidth THEN x[i - 1] + SC * x[i]
        ELSE x[i - 1]]

RECURSIVE BigShiftN(_, _)
BigShiftN(x, n) == IF n = 0 THEN x ELSE BigShiftN(BigShift(x), n - 1)

\* x * m for a fixed-point m (an integer of two limbs)
BigMul(x, m) == BigAdd(BigShift(BigScale(x, m \div SC)), BigScale(x, m % SC))

\* floor(x / SC^5)
BigFloor5(x) == x[6] + SC * x[7] + SC * SC * x[8]

(***************************************************************************)
(* calc_moisture_function                                                  *)
(***************************************************************************)
\* floor(SC * (0.9082 + 0.1206 m - 0.03106 m^2 + 0.001853 m^3 - 0.00003467 m^4)),
\* by Horner's rule on coefficients scaled by 10^8
MoisturePolynomial(fuel_moisture) ==
    LET h4 == BigFromInt(-3467)
        h3 == BigAdd(BigMul(h4, fuel_moisture), BigShiftN(BigFromInt(185300), 1))
        h2 == BigAdd(BigMul(h3, fuel_moisture), BigShiftN(BigFromInt(-3106000), 2))
        h1 == BigAdd(BigMul(h2, fuel_moisture), BigShiftN(BigFromInt(12060000), 3))
        h0 == BigAdd(BigMul(h1, fuel_moisture), BigShiftN(BigFromInt(90820000), 4))
    IN  BigFloor5(h0)

\* the first boundary taken as strict: 4.1 itself falls to the polynomial
calc_moisture_function_strict_low(fuel_moisture) ==
    IF fuel_moisture < 41000 THEN Fx(1)
    ELSE IF fuel_moisture > Fx(24) THEN 0
    ELSE MoisturePolynomial(fuel_moisture)

\* the branch above 24 left out
calc_moisture_function_no_upper(fuel_moisture) ==
    IF fuel_moisture <= 41000 THEN Fx(1)
    ELSE MoisturePolynomial(fuel_moisture)

calc_moisture_function(fuel_moisture) ==
    IF fuel_moisture <= 41000 THEN Fx(1)
    ELSE IF fuel_moisture > Fx(24) THEN 0
    ELSE MoisturePolynomial(fuel_moisture)


(***************************************************************************)
(* calc_fuel_availability                                                  *)
(***************************************************************************)
Max(a, b) == IF a >= b THEN a ELSE b

Min(a, b) == IF a <= b THEN a ELSE b

\* np.clip
Clip(x, lo, hi) == Min(Max(x, lo), hi)

\* C1 of the wet-forest branch
WetC1(DI, wrf) ==
    LET wrf2 == MulFx(wrf, wrf)
    IN  MulFx(MulFx(46, wrf2) - MulFx(79, wrf) - 175, DI)
        + (0 - MulFx(9167, wrf2) + MulFx(15833, wrf) + 135000)

\* the wet-forest drought factor left unclipped
DroughtFactor_unclipped(DF, DI, wrf, wet_forest) ==
    IF wet_forest
    THEN DivFx(MulFx(DF, Max(WetC1(DI, wrf), 0)), Fx(10))
    ELSE DF

\* the local drought_factor
DroughtFactor(DF, DI, wrf, wet_forest) ==
    IF wet_forest
    THEN LET C1 == WetC1(DI, wrf)
             C2 == 0
         IN  Clip(DivFx(MulFx(DF, Max(C1 + C2, 0)), Fx(10)), 0, Fx(10))
    ELSE DF

\* 1.008 / (1 + 104.9 * exp(-0.9306 * drought_factor))
AvailabilityCurve(drought_factor) ==
    DivFx(10080, SC + MulFx(1049000, ExpFx(MulFx(-9306, drought_factor))))

calc_fuel_availability(DF, DI, wrf, wet_forest) ==
    AvailabilityCurve(DroughtFactor(DF, DI, wrf, wet_forest))

(***************************************************************************)
(* calc_slope_effect, calc_height_understorey                              *)
(***************************************************************************)
calc_slope_effect(slope) ==
    IF slope = 0 THEN Fx(1)
    ELSE IF slope > 0 THEN PowFx(Fx(2), DivFx(slope, Fx(10)))
    ELSE LET p == PowFx(Fx(2), DivFx(0 - slope, Fx(10)))
         IN  DivFx(p, 2 * p - SC)

calc_height_understorey(FHS_elevated, height_elevated) ==
    -1000 + MulFx(600, FHS_elevated) + MulFx(4800, height_elevated)

(***************************************************************************)
(* The three rate functions                                                *)
(***************************************************************************)
\* the wind threshold taken as u >= 2
calc_ros_phase1_inclusive(wind_speed, fuel_moisture, fuel_availability, fuel_load_surface, wrf, slope) ==
    LET fuel_moisture_effect == MulFx(calc_moisture_function(fuel_moisture), fuel_availability)
        slope_effect == calc_slope_effect(slope)
        u == DivFx(wind_speed, wrf)
        ros == IF u >= Fx(2)
               THEN 300 + MulFx(MulK5(PowK5(u - SC, 92628), 5024),
                                PowK5(DivFx(fuel_load_surface, Fx(10)), 79928))
               ELSE 300
    IN  MulFx(MulFx(ros, fuel_moisture_effect), slope_effect) * 1000

calc_ros_phase1(wind_speed, fuel_moisture, fuel_availability, fuel_load_surface, wrf, slope) ==
    LET fuel_moisture_effect == MulFx(calc_moisture_function(fuel_moisture), fuel_availability)
        slope_effect == calc_slope_effect(slope)
        u == DivFx(wind_speed, wrf)
        ros == IF u > Fx(2)
               THEN 300 + MulFx(MulK5(PowK5(u - SC, 92628), 5024),
                                PowK5(DivFx(fuel_load_surface, Fx(10)), 79928))
               ELSE 300
    IN  MulFx(MulFx(ros, fuel_moisture_effect), slope_effect) * 1000

calculate_ros_phase2(wind_speed, fuel_moisture, fuel_availability, fuel_load_surface, wrf, height_understorey, slope) ==
    LET fuel_moisture_effect == MulFx(calc_moisture_function(fuel_moisture), fuel_availability)
        slope_effect == calc_slope_effect(slope)
        u == DivFx(wind_speed, wrf)
        ros == MulFx(MulFx(MulK5(PowK5(u, 82570), 19591),
                           PowK5(DivFx(fuel_load_surface, Fx(10)), 46720)),
                     PowK5(height_understorey, 49500))
    IN  MulFx(MulFx(ros, fuel_moisture_effect), slope_effect) * 1000

calc_ros_phase3(wind_speed, fuel_moisture, fuel_availability) ==
    LET fuel_moisture_effect == MulFx(calc_moisture_function(fuel_moisture), fuel_availability)
        ros == MulK5(PowK5(wind_speed, 119128), 5235)
    IN  MulFx(ros, fuel_moisture_effect) * 1000

(***************************************************************************)
(* The two transition probabilities                                        *)
(***************************************************************************)
\* 1 / (1 + exp(-g_x))
Logistic(g_x) == DivFx(SC, SC + ExpFx(0 - g_x))

Phase2G(wind_speed, fuel_moisture, fuel_availability, fuel_load_surface, wrf) ==
    LET fuel_moisture_effect == MulFx(calc_moisture_function(fuel_moisture), fuel_availability)
    IN  -239315 + MulFx(17033, DivFx(wind_speed, wrf))
        + MulFx(120822, fuel_moisture_effect) + MulK5(fuel_load_surface, 95236)

\* the fuel-load floor taken as <= 1
calc_probability_phase2_inclusive(wind_speed, fuel_moisture, fuel_availability, fuel_load_surface, wrf) ==
    LET g_x == Phase2G(wind_speed, fuel_moisture, fuel_availability, fuel_load_surface, wrf)
    IN  IF fuel_load_surface <= Fx(1) THEN 0 ELSE Logistic(g_x)

calc_probability_phase2(wind_speed, fuel_moisture, fuel_availability, fuel_load_surface, wrf) ==
    LET g_x == Phase2G(wind_speed, fuel_moisture, fuel_availability, fuel_load_surface, wrf)
    IN  IF fuel_load_surface < Fx(1) THEN 0 ELSE Logistic(g_x)

Phase3G(wind_speed, fuel_moisture, fuel_availability) ==
    LET fuel_moisture_effect == MulFx(calc_moisture_function(fuel_moisture), fuel_availability)
    IN  -323074 + MulFx(2951, wind_speed) + MulFx(268734, fuel_moisture_effect)

\* the threshold read in km/h (0.3) instead of m/h
calc_probability_phase3_kmh(wind_speed, fuel_moisture, fuel_availability, ros_phase2) ==
    LET g_x == Phase3G(wind_speed, fuel_moisture, fuel_availability)
    IN  IF ros_phase2 < 3000 THEN 0 ELSE Logistic(g_x)

calc_probability_phase3(wind_speed, fuel_moisture, fuel_availability, ros_phase2) ==
    LET g_x == Phase3G(wind_speed, fuel_moisture, fuel_availability)
    IN  IF ros_phase2 < Fx(300) THEN 0 ELSE Logistic(g_x)

(***************************************************************************)
(* calc_rate_of_spread                                                     *)
(***************************************************************************)
\* the two-term weights exchanged
calc_rate_of_spread_swapped(ros_phase1, ros_phase2, ros_phase3, probability_phase2, probability_phase3) ==
    IF probability_phase2 < 5000
    THEN MulFx(ros_phase1, probability_phase2) + MulFx(ros_phase2, SC - probability_phase2)
    ELSE MulFx(ros_phase1, SC - probability_phase2)
         + MulFx(MulFx(ros_phase2, probability_phase2), SC - probability_phase3)
         + MulFx(ros_phase3, probability_phase3)

\* the branch test taken as <= 0.5
calc_rate_of_spread_inclusive(ros_phase1, ros_phase2, ros_phase3, probability_phase2, probability_phase3) ==
    IF probability_phase2 <= 5000
    THEN MulFx(ros_phase1, SC - probability_phase2) + MulFx(ros_phase2, probability_phase2)
    ELSE MulFx(ros_phase1, SC - probability_phase2)
         + MulFx(MulFx(ros_phase2, probability_phase2), SC - probability_phase3)
         + MulFx(ros_phase3, probability_phase3)

\* the phase-2 weight of the two-term branch forgotten
calc_rate_of_spread_unweighted(ros_phase1, ros_phase2, ros_phase3, probability_phase2, probability_phase3) ==
    IF probability_phase2 < 5000
    THEN MulFx(ros_phase1, SC - probability_phase2) + ros_phase2
    ELSE MulFx(ros_phase1, SC - probability_phase2)
         + MulFx(MulFx(ros_phase2, probability_phase2), SC - probability_phase3)
         + MulFx(ros_phase3, probability_phase3)

calc_rate_of_spread(ros_phase1, ros_phase2, ros_phase3, probability_phase2, probability_phase3) ==
    IF probability_phase2 < 5000
    THEN MulFx(ros_phase1, SC - probability_phase2) + MulFx(ros_phase2, probability_phase2)
    ELSE MulFx(ros_phase1, SC - probability_phase2)
         + MulFx(MulFx(ros_phase2, probability_phase2), SC - probability_phase3)
         + MulFx(ros_phase3, probability_phase3)

(***************************************************************************)
(* Array shapes: numpy broadcasting of the operands of an elementwise      *)
(* expression.  A shape is <<>> (a scalar) or <<n>> (n values).            *)
(***************************************************************************)
Shaped(shape) == [raised |-> "none", shape |-> shape]

ScalarShape == Shaped(<<>>)

\* the shape of x (op) y; the first operand that cannot be broadcast raises
Broadcast(x, y) ==
    IF x.raised # "none" THEN x
    ELSE IF y.raised # "none" THEN y
    ELSE IF x.shape = <<>> THEN y
    ELSE IF y.shape = <<>> THEN x
    ELSE IF x.shape[1] = y.shape[1] THEN x
    ELSE IF x.shape[1] = 1 THEN y
    ELSE IF y.shape[1] = 1 THEN x
    ELSE [raised |-> "ValueError", shape |-> <<>>]

calc_rate_of_spread_shape(ros_phase1, ros_phase2, ros_phase3, probability_phase2, probability_phase3) ==
    LET cond == Broadcast(probability_phase2, ScalarShape)
        a    == Broadcast(ros_phase1, Broadcast(ScalarShape, probability_phase2))
        x    == Broadcast(a, Broadcast(ros_phase2, probability_phase2))
        b    == Broadcast(ros_phase1, Broadcast(ScalarShape, probability_phase2))
        c    == Broadcast(Broadcast(ros_phase2, probability_phase2),
                          Broadcast(ScalarShape, probability_phase3))
        y    == Broadcast(Broadcast(b, c), Broadcast(ros_phase3, probability_phase3))
    IN  Broadcast(Broadcast(cond, x), y)

calc_ros_phase1_shape(wind_speed, fuel_moisture, fuel_availability, fuel_load_surface, wrf) ==
    LET fuel_moisture_effect == Broadcast(fuel_moisture, fuel_availability)
        slope_effect == ScalarShape
        u    == Broadcast(wind_speed, wrf)
        ros  == Broadcast(u, Broadcast(u, fuel_load_surface))
    IN  Broadcast(Broadcast(ros, fuel_moisture_effect), slope_effect)

(***************************************************************************)
(* Inputs                                                                  *)
(***************************************************************************)
MaxWind == 40

MaxFuelLoad == 15

MaxSlope == 10

MaxDF == 10

MaxDI == 200

MaxMoistureTenths == 300

MaxRos == 1000

MaxLen == 3

WindSpeeds == {Fx(0), Fx(6), Fx(8), Fx(10), Fx(20), Fx(MaxWind)}

FuelMoistures == {Fx(3), 41000, Fx(10), Fx(25)}

FuelLoads == {5000, Fx(1), Fx(5), Fx(MaxFuelLoad)}

WindReductionFactors == {Fx(3), Fx(4), Fx(5)}

Slopes == {Fx(0 - MaxSlope), 0, Fx(MaxSlope)}

DroughtFactors == {Fx(-1), 0, Fx(5), Fx(MaxDF)}

DroughtIndices == {0, Fx(20), Fx(100), Fx(MaxDI)}

\* fuel moisture in steps of 0.1 from -5
MoistureGrid == {k * 1000 : k \in -50..MaxMoistureTenths}

Rates == {0, Fx(100), Fx(MaxRos)}

Probabilities == {0, 2500, 4999, 5000, 5001, 7500, SC}

Shapes == {<<>>} \cup {<<n>> : n \in 1..MaxLen}

NoColumns == [c \in {} |-> 0]

(***************************************************************************)
(* The evaluation of one weather record (the __main__ block), one action   *)
(* per column assigned.  The weather columns and the scenario values       *)
(* (wrf, fuel_load_surface, slope) range over small sets that hold the     *)
(* script's own values and the branch boundaries of the engine.            *)
(***************************************************************************)
Init ==
    /\ pc = "height_understorey"
    /\ inp \in [wind_speed : WindSpeeds, fuel_moisture : FuelMoistures,
                DF : {Fx(5), Fx(MaxDF)}, fuel_load_surface : FuelLoads,
                wrf : WindReductionFactors, slope : Slopes,
                FHS_elevated : {Fx(3)}, height_elevated : {Fx(2)}, wet_forest : {FALSE}]
    /\ col = NoColumns

Assign(at, name, value, next) ==
    /\ pc = at
    /\ col' = col @@ (name :> value)
    /\ pc' = next
    /\ UNCHANGED inp

HeightUnderstorey ==
    Assign("height_understorey", "height_understorey",
           calc_height_understorey(inp.FHS_elevated, inp.height_elevated),
           "fuel_availability")

\* DI and wrf take their defaults here
FuelAvailability ==
    Assign("fuel_availability", "fuel_availability",
           calc_fuel_availability(inp.DF, Fx(100), Fx(3), inp.wet_forest),
           "ros_phase1")

RosPhase1 ==
    Assign("ros_phase1", "ros_phase1",
           calc_ros_phase1(inp.wind_speed, inp.fuel_moisture, col.fuel_availability,
                           inp.fuel_load_surface, inp.wrf, inp.slope),
           "ros_phase2")

RosPhase2 ==
    Assign("ros_phase2", "ros_phase2",
           calculate_ros_phase2(inp.wind_speed, inp.fuel_moisture, col.fuel_availability,
                                inp.fuel_load_surface, inp.wrf, col.height_understorey,
                                inp.slope),
           "ros_phase3")

RosPhase3 ==
    Assign("ros_phase3", "ros_phase3",
           calc_ros_phase3(inp.wind_speed, inp.fuel_moisture, col.fuel_availability),
           "probability_phase2")

ProbabilityPhase2 ==
    Assign("probability_phase2", "probability_phase2",
           calc_probability_phase2(inp.wind_speed, inp.fuel_moisture, col.fuel_availability,
                                   inp.fuel_load_surface, inp.wrf),
           "probability_phase3")

ProbabilityPhase3 ==
    Assign("probability_phase3", "probability_phase3",
           calc_probability_phase3(inp.wind_speed, inp.fuel_moisture, col.fuel_availability,
                                   col.ros_phase2),
           "ROS")

RateOfSpread ==
    Assign("ROS", "ROS",
           calc_rate_of_spread(col.ros_phase1, col.ros_phase2, col.ros_phase3,
                               col.probability_phase2, col.probability_phase3),
           "done")

Next ==
    \/ HeightUnderstorey
    \/ FuelAvailability
    \/ RosPhase1
    \/ RosPhase2
    \/ RosPhase3
    \/ ProbabilityPhase2
    \/ ProbabilityPhase3
    \/ RateOfSpread

Spec == Init /\ [][Next]_vars

(***************************************************************************)
(* Single calls of the engine's functions on inputs of the caller's choice *)
(***************************************************************************)
InitMoisture ==
    /\ pc = "call"
    /\ inp \in [fuel_moisture : MoistureGrid]
    /\ col = NoColumns

CallMoistureFunction ==
    Assign("call", "fuel_moisture_function", calc_moisture_function(inp.fuel_moisture), "done")

SpecMoisture == InitMoisture /\ [][CallMoistureFunction]_vars

InitAvailability ==
    /\ pc = "call"
    /\ inp \in [DF : DroughtFactors, DI : DroughtIndices, wrf : WindReductionFactors,
                wet_forest : BOOLEAN]
    /\ col = NoColumns

CallFuelAvailability ==
    /\ pc = "call"
    /\ col' = col @@ ("drought_factor" :>
                          DroughtFactor(inp.DF, inp.DI, inp.wrf, inp.wet_forest))
                  @@ ("fuel_availability" :>
                          calc_fuel_availability(inp.DF, inp.DI, inp.wrf, inp.wet_forest))
    /\ pc' = "done"
    /\ UNCHANGED inp

SpecAvailability == InitAvailability /\ [][CallFuelAvailability]_vars

InitBlend ==
    /\ pc = "call"
    /\ inp \in [ros_phase1 : Rates, ros_phase2 : Rates, ros_phase3 : Rates,
                probability_phase2 : Probabilities, probability_phase3 : Probabilities]
    /\ col = NoColumns

CallRateOfSpread ==
    Assign("call", "ROS",
           calc_rate_of_spread(inp.ros_phase1, inp.ros_phase2, inp.ros_phase3,
                               inp.probability_phase2, inp.probability_phase3),
           "done")

SpecBlend == InitBlend /\ [][CallRateOfSpread]_vars

InitShapes ==
    /\ pc = "call"
    /\ inp \in [1..5 -> Shapes]
    /\ col = NoColumns

CallRateOfSpreadShapes ==
    Assign("call", "ROS",
           calc_rate_of_spread_shape(Shaped(inp[1]), Shaped(inp[2]), Shaped(inp[3]),
                                     Shaped(inp[4]), Shaped(inp[5])),
           "done")

CallRosPhase1Shapes ==
    Assign("call", "ros_phase1",
           calc_ros_phase1_shape(Shaped(inp[1]), Shaped(inp[2]), Shaped(inp[3]),
                                 Shaped(inp[4]), Shaped(inp[5])),
           "done")

NextShapes == CallRateOfSpreadShapes \/ CallRosPhase1Shapes

SpecShapes == InitShapes /\ [][NextShapes]_vars

(***************************************************************************)
(* Properties                                                              *)
(***************************************************************************)
Done == pc = "done"

Has(name) == name \in DOMAIN col

\* ros1 (1 - p2) + ros2 p2
TwoTerm(r) ==
    MulFx(r.ros_phase1, SC - r.probability_phase2) + MulFx(r.ros_phase2, r.probability_phase2)

\* ros1 (1 - p2) + ros2 p2 (1 - p3) + ros3 p3
ThreeTerm(r) ==
    MulFx(r.ros_phase1, SC - r.probability_phase2)
    + MulFx(MulFx(r.ros_phase2, r.probability_phase2), SC - r.probability_phase3)
    + MulFx(r.ros_phase3, r.probability_phase3)

\* C1: the blender chooses its formula by probability_phase2 alone: the
\* two-term form for every probability_phase2 below 0.5, the three-term form
\* for 0.5 and above.
C1_BranchByPhase2Probability ==
    Done =>
        /\ inp.probability_phase2 < 5000 => col.ROS = TwoTerm(inp)
        /\ inp.probability_phase2 >= 5000 => col.ROS = ThreeTerm(inp)

C1_Witness ==
    /\ Done
    /\ inp.probability_phase2 = 4999
    /\ col.ROS = TwoTerm(inp)
    /\ TwoTerm(inp) # ThreeTerm(inp)

\* C2 as stated: at probability_phase2 = 0.5 the blender returns the two-term
\* form, with no contribution of ros_phase3 or probability_phase3.
C2_TwoTermAtHalf ==
    (Done /\ inp.probability_phase2 = 5000) => col.ROS = TwoTerm(inp)

\* C2 as amended: at probability_phase2 = 0.5 the blender returns the
\* three-term form ros1 (1 - p2) + ros2 p2 (1 - p3) + ros3 p3.
C2_ThreeTermAtHalf ==
    (Done /\ inp.probability_phase2 = 5000) => col.ROS = ThreeTerm(inp)

C2_Witness ==
    /\ Done
    /\ inp.probability_phase2 = 5000
    /\ inp.probability_phase3 > 0
    /\ col.ROS = ThreeTerm(inp)
    /\ col.ROS # TwoTerm(inp)

Min3(a, b, c) == Min(a, Min(b, c))

Max3(a, b, c) == Max(a, Max(b, c))

\* C10 as stated: the blended rate lies between the smallest and the largest
\* of the candidate rates it blends, in both branches.
C10_BetweenCandidates ==
    Done =>
        IF inp.probability_phase2 < 5000
        THEN /\ col.ROS >= Min(inp.ros_phase1, inp.ros_phase2)
             /\ col.ROS <= Max(inp.ros_phase1, inp.ros_phase2)
        ELSE /\ col.ROS >= Min3(inp.ros_phase1, inp.ros_phase2, inp.ros_phase3)
             /\ col.ROS <= Max3(inp.ros_phase1, inp.ros_phase2, inp.ros_phase3)

\* C10 as amended: below 0.5 the blended rate lies between ros_phase1 and
\* ros_phase2; from 0.5 on the weights sum to 1 + p3 (1 - p2), so the blended
\* rate is at least the smallest candidate and at most 1.5 times the largest.
C10_BoundedByCandidates ==
    Done =>
        IF inp.probability_phase2 < 5000
        THEN /\ col.ROS >= Min(inp.ros_phase1, inp.ros_phase2)
             /\ col.ROS <= Max(inp.ros_phase1, inp.ros_phase2)
        ELSE /\ col.ROS >= Min3(inp.ros_phase1, inp.ros_phase2, inp.ros_phase3)
             /\ col.ROS <= MulFx(15000, Max3(inp.ros_phase1, inp.ros_phase2, inp.ros_phase3))

C10_Witness ==
    /\ Done
    /\ inp.probability_phase2 >= 5000
    /\ inp.probability_phase3 > 0
    /\ col.ROS > Max3(inp.ros_phase1, inp.ros_phase2, inp.ros_phase3)

\* the logistic argument of the phase-2 probability for the record
RecordPhase2G ==
    Phase2G(inp.wind_speed, inp.fuel_moisture, col.fuel_availability, inp.fuel_load_surface,
            inp.wrf)

\* C3: the phase-2 probability is 0 whenever fuel_load_surface < 1, whatever
\* the logistic argument; from 1 on it is the logistic of g, within [0, 1].
C3_Phase2FuelLoadFloor ==
    Has("probability_phase2") =>
        /\ inp.fuel_load_surface < Fx(1) => col.probability_phase2 = 0
        /\ inp.fuel_load_surface >= Fx(1) =>
              /\ col.probability_phase2 = Logistic(RecordPhase2G)
              /\ col.probability_phase2 >= 0
              /\ col.probability_phase2 <= SC

C3_Witness ==
    /\ Has("probability_phase2")
    /\ inp.fuel_load_surface < Fx(1)
    /\ Logistic(RecordPhase2G) > 5000
    /\ col.probability_phase2 = 0

\* the value calculate_ros_phase2 returns for the record
RecordRosPhase2 ==
    calculate_ros_phase2(inp.wind_speed, inp.fuel_moisture, col.fuel_availability,
                         inp.fuel_load_surface, inp.wrf, col.height_understorey, inp.slope)

Phase1Rate(base) ==
    MulFx(MulFx(base, MulFx(calc_moisture_function(inp.fuel_moisture), col.fuel_availability)),
          calc_slope_effect(inp.slope)) * 1000

\* 0.03 + 0.05024 (u - 1)^0.92628 (fuel_load_surface / 10)^0.79928
Phase1PowerLaw(u) ==
    300 + MulFx(MulK5(PowK5(u - SC, 92628), 5024),
                PowK5(DivFx(inp.fuel_load_surface, Fx(10)), 79928))

\* C9: with u = wind_speed / wrf at most 2 the phase-1 base is the constant
\* 0.03 (no fuel load, no wind in the result); above 2 it is the power law.
C9_Phase1WindThreshold ==
    Has("ros_phase1") =>
        LET u == DivFx(inp.wind_speed, inp.wrf)
        IN  /\ u <= Fx(2) => col.ros_phase1 = Phase1Rate(300)
            /\ u > Fx(2) => col.ros_phase1 = Phase1Rate(Phase1PowerLaw(u))

C9_Witness ==
    /\ Has("ros_phase1")
    /\ DivFx(inp.wind_speed, inp.wrf) = Fx(2)
    /\ col.ros_phase1 = Phase1Rate(300)
    /\ Phase1Rate(Phase1PowerLaw(Fx(2))) # Phase1Rate(300)

\* C5: three branches: 1 up to and including 4.1, 0 above 24, and the quartic
\* as it stands for 4.1 < m <= 24.
C5_MoistureBranches ==
    Done =>
        /\ inp.fuel_moisture <= 41000 => col.fuel_moisture_function = Fx(1)
        /\ inp.fuel_moisture > Fx(24) => col.fuel_moisture_function = 0
        /\ (inp.fuel_moisture > 41000 /\ inp.fuel_moisture <= Fx(24)) =>
              col.fuel_moisture_function = MoisturePolynomial(inp.fuel_moisture)

C5_Witness ==
    /\ Done
    /\ inp.fuel_moisture = 41000
    /\ col.fuel_moisture_function = Fx(1)
    /\ MoisturePolynomial(inp.fuel_moisture) # Fx(1)

\* C6: the moisture effect lies in [0, 1] for every fuel moisture.
C6_MoistureInUnitInterval ==
    Done => (col.fuel_moisture_function >= 0 /\ col.fuel_moisture_function <= SC)

C6_Witness ==
    /\ Done
    /\ inp.fuel_moisture = Fx(24)
    /\ col.fuel_moisture_function > 0
    /\ col.fuel_moisture_function < SC

\* C7: in the wet-forest branch C1 + C2 is floored at 0 and DF * floor / 10
\* is then clipped to [0, 10]; in the dry-forest branch DF is used as it is.
\* The result is the availability curve of that drought factor.
C7_WetForestDroughtFactor ==
    Done =>
        /\ inp.wet_forest =>
              /\ col.drought_factor >= 0
              /\ col.drought_factor <= Fx(10)
              /\ WetC1(inp.DI, inp.wrf) <= 0 => col.drought_factor = 0
              /\ col.drought_factor =
                     Clip(DivFx(MulFx(inp.DF, Max(WetC1(inp.DI, inp.wrf), 0)), Fx(10)),
                          0, Fx(10))
        /\ ~inp.wet_forest => col.drought_factor = inp.DF
        /\ col.fuel_availability = AvailabilityCurve(col.drought_factor)

C7_Witness ==
    /\ Done
    /\ inp.wet_forest
    /\ DivFx(MulFx(inp.DF, Max(WetC1(inp.DI, inp.wrf), 0)), Fx(10)) > Fx(10)
    /\ col.drought_factor = Fx(10)

\* two of the sequences passed have different lengths
MismatchedLengths ==
    \E i, j \in 1..5 : inp[i] # <<>> /\ inp[j] # <<>> /\ inp[i] # inp[j]

\* C8: a call with sequences of mismatched lengths fails and returns no
\* result.
C8_MismatchFails ==
    (Done /\ MismatchedLengths) =>
        /\ Has("ROS") => col.ROS.raised # "none"
        /\ Has("ros_phase1") => col.ros_phase1.raised # "none"

====
